---- MODULE Spec2Model ----
(***************************************************************************)
(* The connection hub of real-time-forum.                                  *)
(*                                                                         *)
(* Two hubs live in the repository:                                        *)
(*   - the identity-keyed hub (clients map[int]*Client, routing on         *)
(*     Message.Type) with its Client pumps;                                *)
(*   - the pointer-keyed hub of backend/internal/websocket/hub.go          *)
(*     (clients map[*Client]bool, SendToUser, GetOnlineUserIDs).           *)
(* Both are fed by HandleWebSocket and the Client pumps.                   *)
(*                                                                         *)
(*   Spec      the identity-keyed hub: upgrades, client frames, routing,   *)
(*             read failures, the write pump draining the mailbox;         *)
(*   PumpSpec  the identity-keyed hub without client frames but with the   *)
(*             write pump's own failures and the rejected upgrades         *)
(*             (presence traffic only);                                    *)
(*   PtrSpec   the pointer-keyed hub;                                      *)
(*   HandlerSpec  the pointer-keyed hub with an HTTP handler taking the    *)
(*             online-users snapshot;                                      *)
(*   OrderSpec the identity-keyed hub with two connections, two numbered   *)
(*             frames and mailboxes of capacity two;                       *)
(*   FairSpec  Spec with the hub loop's receives weakly fair.              *)
(*   PostSpec  the pointer-keyed hub with the HTTP handler that stores a   *)
(*             message and hands it to SendToUser, statement by statement; *)
(*   BrowserSpec  the browser's WebSocketClient and its reconnect timers.  *)
(*                                                                         *)
(* A write pump that failed stops draining its mailbox and makes the next  *)
(* read fail.  A hub cannot tell that from a write pump that is not        *)
(* scheduled followed by a read failure, both of which Spec allows, so     *)
(* Spec leaves WriteError to PumpSpec.                                     *)
(***************************************************************************)
EXTENDS Integers, Sequences, FiniteSets, TLC

\* ---------------------------------------------------------------- bounds
\* Upgrade requests served over a run; a successful one constructs the
\* Connection of the same number.
NConn == 3
\* User identities the authentication callback can resolve to.
NUsers == 3
\* Capacity of a mailbox.  The code makes every send channel with capacity
\* 256; the model scales it down, nothing in the hub depends on the value.
SendCap == 1
\* Frames the clients send over a run, all connections together.
MaxFrames == 1
\* The run that observes the order of deliveries: two connections, two
\* numbered frames, and room for both in one mailbox.
NOrderConn == 2
OrderSendCap == 2
MaxOrderFrames == 2
\* POST requests MessagesHandler.SendMessage serves over a run.
MaxPosts == 2
\* WebSocket objects the browser client creates over a run, and the calls of
\* connect() the page makes itself.
MaxSockets == 7
MaxAppConnects == 2
\* this.maxReconnectAttempts
maxReconnectAttempts == 5

Conns == 1..NConn
UserIDs == 1..NUsers
\* The zero value of a *Client in a map lookup that misses.
NoClient == 0

\* --------------------------------------------------------------- messages
\* Message.Type values the hub dispatches on or produces.
PrivateMessage == "private_message"
Broadcast == "broadcast"
MessageSent == "message_sent"
UserOnline == "user_online"
UserOffline == "user_offline"

\* time.Now().Format(time.RFC3339): the server's clock reading.
ServerTime == "server-time"

\* The username a Client was constructed with (NewClient's parameter).
UsernameOf(u) == IF u = 1 THEN "alice" ELSE IF u = 2 THEN "bob" ELSE "user"

\* The struct Message.
Message(type, from, to, content, timestamp, username) ==
    [type |-> type, from |-> from, to |-> to, content |-> content,
     timestamp |-> timestamp, username |-> username]

\* Frames a client can put on the wire (ReadJSON decodes them into a Message;
\* an absent field decodes to its zero value).
FrameTypes == {PrivateMessage, Broadcast, UserOnline}
FrameFroms == {0, 1}
FrameTos == 0..NUsers
FrameContents == {"hi"}
FrameTimestamps == {"", "client-time"}
FrameUsernames == {"", "mallory"}
\* Only a private_message frame names a recipient; a client either leaves
\* from, timestamp and username out or forges all three.
Frames ==
    {f \in [type : FrameTypes, from : FrameFroms, to : FrameTos,
             content : FrameContents, timestamp : FrameTimestamps,
             username : FrameUsernames] :
        /\ f.type # PrivateMessage => f.to = 0
        /\ (f.from = 0) = (f.timestamp = "")
        /\ (f.from = 0) = (f.username = "")}

NoMessage == Message("", 0, 0, "", "", "")

\* The frames of the run that observes the order of deliveries: the k-th
\* frame read carries the content ContentNo(k).
OrderConns == 1..NOrderConn
ContentNo(k) == "m" \o ToString(k)
FrameNo(m) ==
    IF \E k \in 1..MaxOrderFrames : m.content = ContentNo(k)
    THEN CHOOSE k \in 1..MaxOrderFrames : m.content = ContentNo(k)
    ELSE 0
OrderFrames ==
    {f \in [type : {PrivateMessage, Broadcast}, from : {0}, to : 0..NOrderConn,
             content : {ContentNo(k) : k \in 1..MaxOrderFrames},
             timestamp : {""}, username : {""}] :
        (f.type = PrivateMessage) = (f.to # 0)}

\* No SendMessage request is being served.
NoPost == [pc |-> "idle", receiver |-> 0, stored |-> FALSE, client |-> 0,
           deposits |-> 0, err |-> "", served |-> 0]

\* WebSocketClient's constructor: no socket, not connected, no attempt made.
\* sockets are the WebSocket objects connect() created, the last one this.ws;
\* timers counts the pending setTimeout callbacks. event is the handler that
\* ran last, run the close events since the last open event, maxRun the
\* longest such run so far.
NewWebSocketClient ==
    [sockets |-> <<>>, connected |-> FALSE, reconnectAttempts |-> 0,
     timers |-> 0, appConnects |-> 0, event |-> "constructor",
     run |-> 0, maxRun |-> 0]

\* No GetOnlineUserIDs call has been made.
NoSnap == [pc |-> "idle", visited |-> {}, userIDs |-> <<>>, moments |-> {}]

VARIABLES
    clients,     \* identity-keyed Hub.clients: user ID -> Client (NoClient: no entry)
    ptrClients,  \* pointer-keyed Hub.clients: the set of registered Clients
    userID,      \* Client.userID (0: not constructed)
    send,        \* Client.send: the buffered messages
    sendState,   \* Client.send: "open", or the close statement that closed it
    hw,          \* HandleWebSocket for the request: "new", "registering", "done",
                 \* or "unauthorized", "upgradeFailed" (no Client was constructed)
    rp,          \* ReadPump: "idle", "reading", "forwarding", "unregistering", "done"
    wp,          \* WritePump: "idle", "running", "done"
    inflight,    \* the Message ReadPump is sending on hub.broadcast
    hubState,    \* "running", or "panicked" (the process died in Hub.Run)
    frames,      \* frames read so far
    origin,      \* the Clients whose ReadPump forwarded frame 1, 2, ... (history)
    forwarded,   \* the Messages they handed to the hub, in that order (history)
    post,        \* the MessagesHandler.SendMessage request of an HTTP handler
    browser,     \* the WebSocketClient of a browser page
    snap,        \* the GetOnlineUserIDs call of an HTTP handler
    limits       \* the bounds of the run, fixed by the initial state

vars == <<clients, ptrClients, userID, send, sendState, hw, rp, wp,
          inflight, hubState, frames, origin, forwarded, post, browser,
          snap, limits>>

\* Client.conn has been closed: by WritePump's deferred function when it
\* returned, or by ReadPump's once its unregister was received.
connClosed(c) == wp[c] = "done" \/ rp[c] = "done"

\* NewHub, and no upgrade request served yet.
NewHub ==
    /\ clients = [u \in UserIDs |-> NoClient]
    /\ ptrClients = {}
    /\ userID = [c \in Conns |-> 0]
    /\ send = [c \in Conns |-> <<>>]
    /\ sendState = [c \in Conns |-> "open"]
    /\ hw = [c \in Conns |-> "new"]
    /\ rp = [c \in Conns |-> "idle"]
    /\ wp = [c \in Conns |-> "idle"]
    /\ inflight = [c \in Conns |-> NoMessage]
    /\ hubState = "running"
    /\ frames = 0
    /\ origin = <<>>
    /\ forwarded = <<>>
    /\ post = NoPost
    /\ browser = NewWebSocketClient
    /\ snap = NoSnap

Init == NewHub /\ limits = [cap |-> SendCap, frames |-> MaxFrames]

\* The initial state of the run that observes the order of deliveries.
OrderInit == NewHub /\ limits = [cap |-> OrderSendCap, frames |-> MaxOrderFrames]

\* ------------------------------------------------------------ Upgrade Gate
\* HandleWebSocket with the two `go` statements ahead of the send on register.
HandleWebSocket_PumpsFirst(c, u) ==
    /\ hubState = "running"
    /\ hw[c] = "new"
    /\ \A d \in Conns : d < c => hw[d] # "new"
    /\ \A v \in UserIDs : v < u => \E d \in Conns : userID[d] = v
    /\ hw' = [hw EXCEPT ![c] = "registering"]
    /\ userID' = [userID EXCEPT ![c] = u]
    /\ rp' = [rp EXCEPT ![c] = "reading"]
    /\ wp' = [wp EXCEPT ![c] = "running"]
    /\ UNCHANGED <<clients, ptrClients, send, sendState,
                   inflight, hubState, frames, origin, snap, limits,
                   forwarded, post, browser>>

\* HandleWebSocket up to `client.hub.register <- client`: getUserID resolved
\* to u, the upgrade succeeded, the Client is constructed and the handler
\* blocks on the unbuffered register channel.  Connections are numbered in
\* the order they are constructed, and identities in the order of their
\* first login.
HandleWebSocket(c, u) ==
    /\ hubState = "running"
    /\ hw[c] = "new"
    /\ \A d \in Conns : d < c => hw[d] # "new"
    /\ \A v \in UserIDs : v < u => \E d \in Conns : userID[d] = v
    /\ hw' = [hw EXCEPT ![c] = "registering"]
    /\ userID' = [userID EXCEPT ![c] = u]
    /\ UNCHANGED <<clients, ptrClients, send, sendState, rp, wp,
                   inflight, hubState, frames, origin, snap, limits,
                   forwarded, post, browser>>

\* HandleWebSocket answering 401 without the `return`: it goes on, upgrades,
\* registers and starts the pumps for the zero user ID.
HandleWebSocketUnauthorized_NoReturn(c) ==
    /\ hubState = "running"
    /\ hw[c] = "new"
    /\ \A d \in Conns : d < c => hw[d] # "new"
    /\ hw' = [hw EXCEPT ![c] = "unauthorized"]
    /\ rp' = [rp EXCEPT ![c] = "reading"]
    /\ wp' = [wp EXCEPT ![c] = "running"]
    /\ UNCHANGED <<clients, ptrClients, userID, send, sendState,
                   inflight, hubState, frames, origin, snap, limits,
                   forwarded, post, browser>>

\* HandleWebSocket when getUserID returns an error: 401 and return.
HandleWebSocketUnauthorized(c) ==
    /\ hubState = "running"
    /\ hw[c] = "new"
    /\ \A d \in Conns : d < c => hw[d] # "new"
    /\ hw' = [hw EXCEPT ![c] = "unauthorized"]
    /\ UNCHANGED <<clients, ptrClients, userID, send, sendState, rp, wp,
                   inflight, hubState, frames, origin, snap, limits,
                   forwarded, post, browser>>

\* HandleWebSocket when upgrader.Upgrade fails: logged, and return.
HandleWebSocketUpgradeFailed(c) ==
    /\ hubState = "running"
    /\ hw[c] = "new"
    /\ \A d \in Conns : d < c => hw[d] # "new"
    /\ hw' = [hw EXCEPT ![c] = "upgradeFailed"]
    /\ UNCHANGED <<clients, ptrClients, userID, send, sendState, rp, wp,
                   inflight, hubState, frames, origin, snap, limits,
                   forwarded, post, browser>>

\* ------------------------------------------------------------- Connection
\* Stamp without `message.From = c.userID`: the client's from goes through.
Stamp_KeepFrom(c, f) ==
    [f EXCEPT !.username = UsernameOf(userID[c]),
              !.timestamp = ServerTime]

\* Stamp without `message.Username = c.username`.
Stamp_KeepUsername(c, f) ==
    [f EXCEPT !.from = userID[c],
              !.timestamp = ServerTime]

\* The stamping of ReadPump: From, Username and Timestamp are overwritten.
Stamp(c, f) ==
    [f EXCEPT !.from = userID[c],
              !.username = UsernameOf(userID[c]),
              !.timestamp = ServerTime]

\* ReadPump: one frame decoded, stamped, and the pump blocks on hub.broadcast.
ReadFrame(c, f) ==
    /\ hubState = "running"
    /\ rp[c] = "reading"
    /\ ~connClosed(c)
    /\ frames < limits.frames
    /\ inflight' = [inflight EXCEPT ![c] = Stamp(c, f)]
    /\ rp' = [rp EXCEPT ![c] = "forwarding"]
    /\ frames' = frames + 1
    /\ origin' = Append(origin, c)
    /\ forwarded' = Append(forwarded, Stamp(c, f))
    /\ UNCHANGED <<clients, ptrClients, userID, send, sendState, hw, wp,
                   hubState, snap, limits, post, browser>>

\* ReadFrame for a client that numbers its frames.
ReadNumberedFrame(c, f) ==
    /\ f.content = ContentNo(frames + 1)
    /\ ReadFrame(c, f)

\* ReadPump: ReadJSON fails (peer gone, bad frame, deadline, transport closed);
\* the loop breaks and the deferred function blocks on hub.unregister.
ReadError(c) ==
    /\ hubState = "running"
    /\ rp[c] = "reading"
    /\ rp' = [rp EXCEPT ![c] = "unregistering"]
    /\ UNCHANGED <<clients, ptrClients, userID, send, sendState, hw, wp,
                   inflight, hubState, frames, origin, snap, limits,
                   forwarded, post, browser>>

\* WritePump: a message received from send and written.
WriteMessage(c) ==
    /\ hubState = "running"
    /\ wp[c] = "running"
    /\ send[c] # <<>>
    /\ send' = [send EXCEPT ![c] = Tail(@)]
    /\ UNCHANGED <<clients, ptrClients, userID, sendState, hw, rp, wp,
                   inflight, hubState, frames, origin, snap, limits,
                   forwarded, post, browser>>

\* WritePump: the receive reports the channel closed and drained; the pump
\* writes the close frame, returns, and its deferred function closes conn.
WriteClosed(c) ==
    /\ hubState = "running"
    /\ wp[c] = "running"
    /\ send[c] = <<>>
    /\ sendState[c] # "open"
    /\ wp' = [wp EXCEPT ![c] = "done"]
    /\ UNCHANGED <<clients, ptrClients, userID, send, sendState, hw, rp, inflight,
                   hubState, frames, origin, snap, limits,
                   forwarded, post, browser>>

\* WritePump: a ping (or a write) fails; the pump returns and closes conn.
WriteError(c) ==
    /\ hubState = "running"
    /\ wp[c] = "running"
    /\ wp' = [wp EXCEPT ![c] = "done"]
    /\ UNCHANGED <<clients, ptrClients, userID, send, sendState, hw, rp, inflight,
                   hubState, frames, origin, snap, limits,
                   forwarded, post, browser>>

\* ------------------------------------------------- identity-keyed Hub.Run
\* The part of the state Hub.Run works on while it handles one event.
HubView == [clients |-> clients, send |-> send, sendState |-> sendState,
            panicked |-> FALSE]

\* Deposit without the `ok` test of the map lookup: a missing entry is a nil
\* Client and the send dereferences it.
Deposit_NoOkTest(st, u, m, site) ==
    LET c == st.clients[u] IN
    IF st.panicked THEN st
    ELSE IF c = NoClient THEN [st EXCEPT !.panicked = TRUE]
    ELSE IF st.sendState[c] # "open" THEN [st EXCEPT !.panicked = TRUE]
    ELSE IF Len(st.send[c]) < limits.cap
         THEN [st EXCEPT !.send[c] = Append(@, m)]
         ELSE [st EXCEPT !.sendState[c] = site, !.clients[u] = NoClient]

\* Deposit with an empty default branch: a full mailbox drops the message.
Deposit_DropWhenFull(st, u, m, site) ==
    LET c == st.clients[u] IN
    IF st.panicked \/ c = NoClient THEN st
    ELSE IF st.sendState[c] # "open" THEN [st EXCEPT !.panicked = TRUE]
    ELSE IF Len(st.send[c]) < limits.cap
         THEN [st EXCEPT !.send[c] = Append(@, m)]
         ELSE st

\* Deposit without the delete of the overflow branch: the closed Client stays
\* in the registry.
Deposit_NoDelete(st, u, m, site) ==
    LET c == st.clients[u] IN
    IF st.panicked \/ c = NoClient THEN st
    ELSE IF st.sendState[c] # "open" THEN [st EXCEPT !.panicked = TRUE]
    ELSE IF Len(st.send[c]) < limits.cap
         THEN [st EXCEPT !.send[c] = Append(@, m)]
         ELSE [st EXCEPT !.sendState[c] = site]

\* Deposit sending on the head of the buffer instead of its tail.
Deposit_Prepend(st, u, m, site) ==
    LET c == st.clients[u] IN
    IF st.panicked \/ c = NoClient THEN st
    ELSE IF st.sendState[c] # "open" THEN [st EXCEPT !.panicked = TRUE]
    ELSE IF Len(st.send[c]) < limits.cap
         THEN [st EXCEPT !.send[c] = <<m>> \o @]
         ELSE [st EXCEPT !.sendState[c] = site, !.clients[u] = NoClient]

\* select { case client.send <- m: default: close(client.send); delete(...) }
\* for the entry of user u; site names the statement.  A send on a closed
\* channel panics.
Deposit(st, u, m, site) ==
    LET c == st.clients[u] IN
    IF st.panicked \/ c = NoClient THEN st
    ELSE IF st.sendState[c] # "open" THEN [st EXCEPT !.panicked = TRUE]
    ELSE IF Len(st.send[c]) < limits.cap
         THEN [st EXCEPT !.send[c] = Append(@, m)]
         ELSE [st EXCEPT !.sendState[c] = site, !.clients[u] = NoClient]

\* A range over h.clients depositing m into each entry among the users us.
\* The deposits touch different entries, so their order does not matter.
RECURSIVE DepositAll(_, _, _, _)
DepositAll(st, us, m, site) ==
    IF us = {} THEN st
    ELSE LET u == CHOOSE x \in us : TRUE
         IN DepositAll(Deposit(st, u, m, site), us \ {u}, m, site)

Registered(st) == {u \in UserIDs : st.clients[u] # NoClient}

\* broadcastUserStatus skipping the entry of the user the status is about.
broadcastUserStatus_SkipSelf(st, uid, username, isOnline) ==
    LET statusMessage ==
            Message(IF isOnline THEN UserOnline ELSE UserOffline, uid, 0, "", "", username)
    IN DepositAll(st, Registered(st) \ {uid}, statusMessage, "status")

\* broadcastUserStatus
broadcastUserStatus(st, uid, username, isOnline) ==
    LET statusMessage ==
            Message(IF isOnline THEN UserOnline ELSE UserOffline, uid, 0, "", "", username)
    IN DepositAll(st, Registered(st), statusMessage, "status")

\* The state after Hub.Run handled an event.
Commit(st) ==
    /\ clients' = st.clients
    /\ send' = st.send
    /\ sendState' = st.sendState
    /\ hubState' = IF st.panicked THEN "panicked" ELSE "running"

\* case client := <-h.register
RegisterResult(st, c) ==
    broadcastUserStatus([st EXCEPT !.clients[userID[c]] = c],
                        userID[c], UsernameOf(userID[c]), TRUE)

\* Hub.Run receives from register; HandleWebSocket goes on and starts the pumps.
HubRegister(c) ==
    /\ hubState = "running"
    /\ hw[c] = "registering"
    /\ Commit(RegisterResult(HubView, c))
    /\ hw' = [hw EXCEPT ![c] = "done"]
    /\ rp' = [rp EXCEPT ![c] = "reading"]
    /\ wp' = [wp EXCEPT ![c] = "running"]
    /\ UNCHANGED <<ptrClients, userID, inflight, frames, origin, snap, limits,
                   forwarded, post, browser>>

\* The unregister case without the `ok` test: it always deletes, closes and
\* announces.
UnregisterResult_NoOkTest(st, c) ==
    LET u == userID[c] IN
    IF st.sendState[c] # "open"
    THEN [st EXCEPT !.clients[u] = NoClient, !.panicked = TRUE]
    ELSE broadcastUserStatus(
             [st EXCEPT !.clients[u] = NoClient, !.sendState[c] = "unregister"],
             u, UsernameOf(u), FALSE)

\* The unregister case closing the mailbox without deleting the entry.
UnregisterResult_NoDelete(st, c) ==
    LET u == userID[c] IN
    IF st.clients[u] # NoClient
    THEN IF st.sendState[c] # "open"
         THEN [st EXCEPT !.panicked = TRUE]
         ELSE [st EXCEPT !.sendState[c] = "unregister"]
    ELSE st

\* The unregister case announcing user_offline even when the user has no entry.
UnregisterResult_AlwaysAnnounce(st, c) ==
    LET u == userID[c] IN
    IF st.clients[u] # NoClient
    THEN IF st.sendState[c] # "open"
         THEN [st EXCEPT !.clients[u] = NoClient, !.panicked = TRUE]
         ELSE broadcastUserStatus(
                  [st EXCEPT !.clients[u] = NoClient, !.sendState[c] = "unregister"],
                  u, UsernameOf(u), FALSE)
    ELSE broadcastUserStatus(st, u, UsernameOf(u), FALSE)

\* case client := <-h.unregister
UnregisterResult(st, c) ==
    LET u == userID[c] IN
    IF st.clients[u] # NoClient
    THEN IF st.sendState[c] # "open"
         THEN [st EXCEPT !.clients[u] = NoClient, !.panicked = TRUE]
         ELSE broadcastUserStatus(
                  [st EXCEPT !.clients[u] = NoClient, !.sendState[c] = "unregister"],
                  u, UsernameOf(u), FALSE)
    ELSE st

\* Hub.Run receives from unregister; ReadPump's deferred function closes conn.
HubUnregister(c) ==
    /\ hubState = "running"
    /\ rp[c] = "unregistering"
    /\ Commit(UnregisterResult(HubView, c))
    /\ rp' = [rp EXCEPT ![c] = "done"]
    /\ UNCHANGED <<ptrClients, userID, hw, wp, inflight, frames, origin, snap, limits,
                   forwarded, post, browser>>

\* RouteResult without the copy sent back to the sender.
RouteResult_NoEcho(st, m) ==
    IF m.type = PrivateMessage
    THEN IF m.to \in UserIDs THEN Deposit(st, m.to, m, "recipient") ELSE st
    ELSE IF m.type = Broadcast
    THEN DepositAll(st, Registered(st) \ {m.from}, m, "broadcast")
    ELSE st

\* RouteResult without `if userID != message.From` in the broadcast range.
RouteResult_BroadcastToSender(st, m) ==
    IF m.type = PrivateMessage
    THEN LET st1 == IF m.to \in UserIDs THEN Deposit(st, m.to, m, "recipient") ELSE st
             messageCopy == [m EXCEPT !.type = MessageSent]
         IN IF m.from \in UserIDs THEN Deposit(st1, m.from, messageCopy, "sender") ELSE st1
    ELSE IF m.type = Broadcast
    THEN DepositAll(st, Registered(st), m, "broadcast")
    ELSE st

\* RouteResult with a default arm that echoes an envelope of unknown kind to
\* its sender.
RouteResult_EchoUnknown(st, m) ==
    IF m.type = PrivateMessage
    THEN LET st1 == IF m.to \in UserIDs THEN Deposit(st, m.to, m, "recipient") ELSE st
             messageCopy == [m EXCEPT !.type = MessageSent]
         IN IF m.from \in UserIDs THEN Deposit(st1, m.from, messageCopy, "sender") ELSE st1
    ELSE IF m.type = Broadcast
    THEN DepositAll(st, Registered(st) \ {m.from}, m, "broadcast")
    ELSE IF m.from \in UserIDs THEN Deposit(st, m.from, m, "sender") ELSE st

\* RouteResult that tells the sender when the recipient's mailbox was full.
RouteResult_ReportFailure(st, m) ==
    IF m.type = PrivateMessage
    THEN LET st1 == IF m.to \in UserIDs THEN Deposit(st, m.to, m, "recipient") ELSE st
             failed == m.to \in UserIDs /\ st.clients[m.to] # NoClient
                          /\ st1.clients[m.to] = NoClient
             messageCopy == [m EXCEPT !.type = IF failed THEN "message_failed" ELSE MessageSent]
         IN IF m.from \in UserIDs THEN Deposit(st1, m.from, messageCopy, "sender") ELSE st1
    ELSE IF m.type = Broadcast
    THEN DepositAll(st, Registered(st) \ {m.from}, m, "broadcast")
    ELSE st

\* case message := <-h.broadcast: switch message.Type
RouteResult(st, m) ==
    IF m.type = PrivateMessage
    THEN LET st1 == IF m.to \in UserIDs THEN Deposit(st, m.to, m, "recipient") ELSE st
             messageCopy == [m EXCEPT !.type = MessageSent]
         IN IF m.from \in UserIDs THEN Deposit(st1, m.from, messageCopy, "sender") ELSE st1
    ELSE IF m.type = Broadcast
    THEN DepositAll(st, Registered(st) \ {m.from}, m, "broadcast")
    ELSE st

\* Hub.Run receives from broadcast; ReadPump goes back to reading.
HubRoute(c) ==
    /\ hubState = "running"
    /\ rp[c] = "forwarding"
    /\ Commit(RouteResult(HubView, inflight[c]))
    /\ rp' = [rp EXCEPT ![c] = "reading"]
    /\ inflight' = [inflight EXCEPT ![c] = NoMessage]
    /\ UNCHANGED <<ptrClients, userID, hw, wp, frames, origin, snap, limits,
                   forwarded, post, browser>>

\* GetOnlineUsers
GetOnlineUsers == {u \in UserIDs : clients[u] # NoClient}

\* ------------------------------------------------- pointer-keyed Hub.Run
\* The message MessagesHandler.SendMessage hands to SendToUser.
NewMessage == Message("new_message", 0, 0, "hi", ServerTime, "")

\* select { case client.send <- m: default: close(client.send); delete(...) }
\* for the registered client c; site names the statement.
PtrDeposit(st, c, m, site) ==
    IF st.panicked THEN st
    ELSE IF st.sendState[c] # "open" THEN [st EXCEPT !.panicked = TRUE]
    ELSE IF Len(st.send[c]) < limits.cap
         THEN [st EXCEPT !.send[c] = Append(@, m)]
         ELSE [st EXCEPT !.sendState[c] = site, !.clients = @ \ {c}]

RECURSIVE PtrDepositAll(_, _, _, _)
PtrDepositAll(st, cs, m, site) ==
    IF cs = {} THEN st
    ELSE LET c == CHOOSE x \in cs : TRUE
         IN PtrDepositAll(PtrDeposit(st, c, m, site), cs \ {c}, m, site)

PtrHubView == [clients |-> ptrClients, send |-> send, sendState |-> sendState,
               panicked |-> FALSE]

\* The identities of a set of registered Clients.
UserIDsOf(cs) == {userID[c] : c \in cs}

PtrCommit(st) ==
    /\ ptrClients' = st.clients
    /\ snap' = IF snap.pc = "ranging"
               THEN [snap EXCEPT !.moments = @ \cup {UserIDsOf(st.clients)}]
               ELSE snap
    /\ send' = st.send
    /\ sendState' = st.sendState
    /\ hubState' = IF st.panicked THEN "panicked" ELSE "running"

\* case client := <-h.register
PtrRegisterResult(st, c) == [st EXCEPT !.clients = @ \cup {c}]

PtrHubRegister(c) ==
    /\ hubState = "running"
    /\ hw[c] = "registering"
    /\ PtrCommit(PtrRegisterResult(PtrHubView, c))
    /\ hw' = [hw EXCEPT ![c] = "done"]
    /\ rp' = [rp EXCEPT ![c] = "reading"]
    /\ wp' = [wp EXCEPT ![c] = "running"]
    /\ UNCHANGED <<clients, userID, inflight, frames, origin, limits,
                   forwarded, post, browser>>

\* case client := <-h.unregister
PtrUnregisterResult(st, c) ==
    IF c \in st.clients
    THEN IF st.sendState[c] # "open"
         THEN [st EXCEPT !.clients = @ \ {c}, !.panicked = TRUE]
         ELSE [st EXCEPT !.clients = @ \ {c}, !.sendState[c] = "unregister"]
    ELSE st

PtrHubUnregister(c) ==
    /\ hubState = "running"
    /\ rp[c] = "unregistering"
    /\ PtrCommit(PtrUnregisterResult(PtrHubView, c))
    /\ rp' = [rp EXCEPT ![c] = "done"]
    /\ UNCHANGED <<clients, userID, hw, wp, inflight, frames, origin, limits,
                   forwarded, post, browser>>

\* case message := <-h.broadcast
PtrHubBroadcast(c) ==
    /\ hubState = "running"
    /\ rp[c] = "forwarding"
    /\ PtrCommit(PtrDepositAll(PtrHubView, ptrClients, inflight[c], "broadcast"))
    /\ rp' = [rp EXCEPT ![c] = "reading"]
    /\ inflight' = [inflight EXCEPT ![c] = NoMessage]
    /\ UNCHANGED <<clients, userID, hw, wp, frames, origin, limits,
                   forwarded, post, browser>>

\* Hub.SendToUser as one step, the hub loop not running during the call:
\* the range stops at the first client of the user, which is
\* any of them (map order).
SendToUser(u, c) ==
    /\ hubState = "running"
    /\ c \in ptrClients
    /\ userID[c] = u
    /\ PtrCommit(PtrDeposit(PtrHubView, c, NewMessage, "sendToUser"))
    /\ UNCHANGED <<clients, userID, hw, rp, wp, inflight, frames, origin, limits,
                   forwarded, post, browser>>

\* ------------------------------------------- MessagesHandler.SendMessage
\* The handler runs on the goroutine of its HTTP request; post.pc is its
\* position, or the response once it is done: "200", "400", "500", or
\* "aborted" (the handler panicked; net/http recovers and drops the request).
PostDone == {"idle", "200", "400", "500", "aborted"}

\* The request fails a check ahead of the INSERT (method, session, body,
\* empty content, receiver = sender).
SendMessageRejected ==
    /\ hubState = "running"
    /\ post.pc \in PostDone
    /\ post.served < MaxPosts
    /\ post' = [NoPost EXCEPT !.pc = "400", !.served = post.served + 1]
    /\ UNCHANGED <<clients, ptrClients, userID, send, sendState, hw, rp, wp,
                   inflight, hubState, frames, origin, snap, limits,
                   forwarded, browser>>

\* h.db.Exec(INSERT ...) for a request to receiver u: it fails and the
\* handler answers 500, or it succeeds and the handler goes on to SendToUser.
SendMessageStore(u, ok) ==
    /\ hubState = "running"
    /\ post.pc \in PostDone
    /\ post.served < MaxPosts
    /\ post' = IF ok
               THEN [NoPost EXCEPT !.pc = "stored", !.receiver = u, !.stored = TRUE,
                                   !.served = post.served + 1]
               ELSE [NoPost EXCEPT !.pc = "500", !.receiver = u,
                                   !.served = post.served + 1]
    /\ UNCHANGED <<clients, ptrClients, userID, send, sendState, hw, rp, wp,
                   inflight, hubState, frames, origin, snap, limits,
                   forwarded, browser>>

\* Hub.SendToUser, `for client := range h.clients` reaching a client of the
\* receiver.
SendToUserFind(c) ==
    /\ hubState = "running"
    /\ post.pc = "stored"
    /\ c \in ptrClients
    /\ userID[c] = post.receiver
    /\ post' = [post EXCEPT !.pc = "found", !.client = c]
    /\ UNCHANGED <<clients, ptrClients, userID, send, sendState, hw, rp, wp,
                   inflight, hubState, frames, origin, snap, limits,
                   forwarded, browser>>

\* Hub.SendToUser, the range ending without a client of the receiver.
SendToUserNoMatch ==
    /\ hubState = "running"
    /\ post.pc = "stored"
    /\ \A c \in ptrClients : userID[c] # post.receiver
    /\ post' = [post EXCEPT !.pc = "returned", !.err = "nil"]
    /\ UNCHANGED <<clients, ptrClients, userID, send, sendState, hw, rp, wp,
                   inflight, hubState, frames, origin, snap, limits,
                   forwarded, browser>>

\* SendToUserSelect without the `break`: after a deposit the range goes on.
SendToUserSelect_NoBreak ==
    LET c == post.client IN
    /\ hubState = "running"
    /\ post.pc = "found"
    /\ IF sendState[c] # "open"
       THEN /\ post' = [post EXCEPT !.pc = "aborted"]
            /\ UNCHANGED <<send, sendState>>
       ELSE IF Len(send[c]) < limits.cap
       THEN /\ send' = [send EXCEPT ![c] = Append(@, NewMessage)]
            /\ post' = [post EXCEPT !.pc = "stored", !.deposits = @ + 1]
            /\ UNCHANGED sendState
       ELSE /\ sendState' = [sendState EXCEPT ![c] = "sendToUser"]
            /\ post' = [post EXCEPT !.pc = "closed"]
            /\ UNCHANGED send
    /\ UNCHANGED <<clients, ptrClients, userID, hw, rp, wp,
                   inflight, hubState, frames, origin, snap, limits,
                   forwarded, browser>>

\* Hub.SendToUser, the select on the client found: a send on a closed channel
\* panics; with room the message is buffered and the call returns nil; a full
\* channel is closed.
SendToUserSelect ==
    LET c == post.client IN
    /\ hubState = "running"
    /\ post.pc = "found"
    /\ IF sendState[c] # "open"
       THEN /\ post' = [post EXCEPT !.pc = "aborted"]
            /\ UNCHANGED <<send, sendState>>
       ELSE IF Len(send[c]) < limits.cap
       THEN /\ send' = [send EXCEPT ![c] = Append(@, NewMessage)]
            /\ post' = [post EXCEPT !.pc = "returned", !.deposits = @ + 1,
                                    !.err = "nil"]
            /\ UNCHANGED sendState
       ELSE /\ sendState' = [sendState EXCEPT ![c] = "sendToUser"]
            /\ post' = [post EXCEPT !.pc = "closed"]
            /\ UNCHANGED send
    /\ UNCHANGED <<clients, ptrClients, userID, hw, rp, wp,
                   inflight, hubState, frames, origin, snap, limits,
                   forwarded, browser>>

\* Hub.SendToUser, delete(h.clients, client) after the close, then break and
\* return nil.
SendToUserDelete ==
    /\ hubState = "running"
    /\ post.pc = "closed"
    /\ ptrClients' = ptrClients \ {post.client}
    /\ post' = [post EXCEPT !.pc = "returned", !.err = "nil"]
    /\ UNCHANGED <<clients, userID, send, sendState, hw, rp, wp,
                   inflight, hubState, frames, origin, snap, limits,
                   forwarded, browser>>

\* The handler logs an error of SendToUser, if any, and answers success.
SendMessageRespond ==
    /\ hubState = "running"
    /\ post.pc = "returned"
    /\ post' = [post EXCEPT !.pc = "200"]
    /\ UNCHANGED <<clients, ptrClients, userID, send, sendState, hw, rp, wp,
                   inflight, hubState, frames, origin, snap, limits,
                   forwarded, browser>>

\* ------------------------------------------------- browser WebSocketClient
BrowserOnly ==
    UNCHANGED <<clients, ptrClients, userID, send, sendState, hw, rp, wp,
                inflight, hubState, frames, origin, snap, limits,
                forwarded, post>>

\* connect(): a new WebSocket, which becomes this.ws.
connect(b) == [b EXCEPT !.sockets = Append(@, "connecting")]

\* attemptReconnect with `<=` for `<`.
attemptReconnect_OneMore(b) ==
    IF b.reconnectAttempts <= maxReconnectAttempts
    THEN [b EXCEPT !.reconnectAttempts = @ + 1, !.timers = @ + 1]
    ELSE b

\* attemptReconnect(): below the maximum, count the attempt and set a timer
\* that calls connect(); at the maximum, log only.
attemptReconnect(b) ==
    IF b.reconnectAttempts < maxReconnectAttempts
    THEN [b EXCEPT !.reconnectAttempts = @ + 1, !.timers = @ + 1]
    ELSE b

\* The page calls connect().
AppConnect ==
    /\ browser.appConnects < MaxAppConnects
    /\ Len(browser.sockets) < MaxSockets
    /\ browser' = [connect(browser) EXCEPT !.appConnects = @ + 1,
                                           !.event = "connect"]
    /\ BrowserOnly

\* A timer of attemptReconnect fires and calls connect().
TimerFires ==
    /\ browser.timers > 0
    /\ Len(browser.sockets) < MaxSockets
    /\ browser' = [connect(browser) EXCEPT !.timers = @ - 1, !.event = "timer"]
    /\ BrowserOnly

\* ws.onopen of socket i.
OnOpen(i) ==
    /\ i \in DOMAIN browser.sockets
    /\ browser.sockets[i] = "connecting"
    /\ browser' = [browser EXCEPT !.sockets[i] = "open", !.connected = TRUE,
                                  !.reconnectAttempts = 0,
                                  !.event = "open", !.run = 0]
    /\ BrowserOnly

\* ws.onclose of socket i: the connection failed, was lost, or was closed by
\* disconnect().
OnClose(i) ==
    /\ i \in DOMAIN browser.sockets
    /\ browser.sockets[i] # "closed"
    /\ browser' = attemptReconnect(
                     [browser EXCEPT !.sockets[i] = "closed", !.connected = FALSE,
                                     !.event = "close", !.run = @ + 1,
                                     !.maxRun = IF browser.run + 1 > @
                                                THEN browser.run + 1 ELSE @])
    /\ BrowserOnly

\* disconnect(): this.ws.close() starts the closing handshake of the current
\* socket, whose close event comes later.
Disconnect ==
    /\ browser.sockets # <<>>
    /\ LET i == Len(browser.sockets) IN
       browser' = [browser EXCEPT
                     !.sockets[i] = IF @ = "closed" THEN "closed" ELSE "closing",
                     !.connected = FALSE, !.event = "disconnect"]
    /\ BrowserOnly

\* Hub.GetOnlineUserIDs, when nothing writes the map while it ranges over it.
GetOnlineUserIDs == {userID[c] : c \in ptrClients}

\* The elements of a slice.
Elems(q) == {q[i] : i \in 1..Len(q)}

\* Hub.GetOnlineUserIDs called by an HTTP handler, on its own goroutine: it
\* takes no lock, so the hub loop runs while the range is under way.  moments
\* collects the identity sets the registry holds during the call.
GetOnlineUserIDsCall ==
    /\ hubState = "running"
    /\ snap.pc = "idle"
    /\ snap' = [pc |-> "ranging", visited |-> {}, userIDs |-> <<>>,
                moments |-> {UserIDsOf(ptrClients)}]
    /\ UNCHANGED <<clients, ptrClients, userID, send, sendState, hw, rp, wp,
                   inflight, hubState, frames, origin, limits,
                   forwarded, post, browser>>

\* One iteration of `for client := range h.clients`: an entry not produced
\* yet, appended unless its user ID was seen.
GetOnlineUserIDsRange(c) ==
    /\ hubState = "running"
    /\ snap.pc = "ranging"
    /\ c \in ptrClients \ snap.visited
    /\ snap' = [snap EXCEPT
                    !.visited = @ \cup {c},
                    !.userIDs = IF userID[c] \in Elems(@) THEN @
                                ELSE Append(@, userID[c])]
    /\ UNCHANGED <<clients, ptrClients, userID, send, sendState, hw, rp, wp,
                   inflight, hubState, frames, origin, limits,
                   forwarded, post, browser>>

\* The range is exhausted and the slice is returned.
GetOnlineUserIDsReturn ==
    /\ hubState = "running"
    /\ snap.pc = "ranging"
    /\ ptrClients \ snap.visited = {}
    /\ snap' = [snap EXCEPT !.pc = "returned"]
    /\ UNCHANGED <<clients, ptrClients, userID, send, sendState, hw, rp, wp,
                   inflight, hubState, frames, origin, limits,
                   forwarded, post, browser>>

\* ---------------------------------------------------------- specifications
Next ==
    \/ \E c \in Conns, u \in UserIDs : HandleWebSocket(c, u)
    \/ \E c \in Conns, f \in Frames : ReadFrame(c, f)
    \/ \E c \in Conns : ReadError(c)
    \/ \E c \in Conns : WriteMessage(c)
    \/ \E c \in Conns : WriteClosed(c)
    \/ \E c \in Conns : HubRegister(c)
    \/ \E c \in Conns : HubUnregister(c)
    \/ \E c \in Conns : HubRoute(c)

Spec == Init /\ [][Next]_vars

PumpNext ==
    \/ \E c \in Conns, u \in UserIDs : HandleWebSocket(c, u)
    \/ \E c \in Conns : HandleWebSocketUnauthorized(c)
    \/ \E c \in Conns : HandleWebSocketUpgradeFailed(c)
    \/ \E c \in Conns : ReadError(c)
    \/ \E c \in Conns : WriteMessage(c)
    \/ \E c \in Conns : WriteClosed(c)
    \/ \E c \in Conns : WriteError(c)
    \/ \E c \in Conns : HubRegister(c)
    \/ \E c \in Conns : HubUnregister(c)

PumpSpec == Init /\ [][PumpNext]_vars

PtrNext ==
    \/ \E c \in Conns, u \in UserIDs : HandleWebSocket(c, u)
    \/ \E c \in Conns, f \in Frames : ReadFrame(c, f)
    \/ \E c \in Conns : ReadError(c)
    \/ \E c \in Conns : WriteMessage(c)
    \/ \E c \in Conns : WriteClosed(c)
    \/ \E c \in Conns : PtrHubRegister(c)
    \/ \E c \in Conns : PtrHubUnregister(c)
    \/ \E c \in Conns : PtrHubBroadcast(c)
    \/ \E c \in Conns, u \in UserIDs : SendToUser(u, c)

PtrSpec == Init /\ [][PtrNext]_vars

\* The pointer-keyed hub with an HTTP handler taking the online-users
\* snapshot, presence traffic only.
HandlerNext ==
    \/ \E c \in Conns, u \in UserIDs : HandleWebSocket(c, u)
    \/ \E c \in Conns : ReadError(c)
    \/ \E c \in Conns : PtrHubRegister(c)
    \/ \E c \in Conns : PtrHubUnregister(c)
    \/ GetOnlineUserIDsCall
    \/ \E c \in Conns : GetOnlineUserIDsRange(c)
    \/ GetOnlineUserIDsReturn

HandlerSpec == Init /\ [][HandlerNext]_vars

\* The pointer-keyed hub with the HTTP handler that stores a message and
\* hands it to SendToUser, presence traffic only.
PostNext ==
    \/ \E c \in Conns, u \in UserIDs : HandleWebSocket(c, u)
    \/ \E c \in Conns : ReadError(c)
    \/ \E c \in Conns : WriteMessage(c)
    \/ \E c \in Conns : WriteClosed(c)
    \/ \E c \in Conns : PtrHubRegister(c)
    \/ \E c \in Conns : PtrHubUnregister(c)
    \/ SendMessageRejected
    \/ \E u \in UserIDs, ok \in BOOLEAN : SendMessageStore(u, ok)
    \/ \E c \in Conns : SendToUserFind(c)
    \/ SendToUserNoMatch
    \/ SendToUserSelect
    \/ SendToUserDelete
    \/ SendMessageRespond

PostSpec == Init /\ [][PostNext]_vars

\* The browser client on its own: the page, the timers and the events of its
\* sockets.
BrowserNext ==
    \/ AppConnect
    \/ TimerFires
    \/ \E i \in 1..MaxSockets : OnOpen(i)
    \/ \E i \in 1..MaxSockets : OnClose(i)
    \/ Disconnect

BrowserSpec == Init /\ [][BrowserNext]_vars

\* The identity-keyed hub with two connections, two numbered frames and
\* mailboxes of capacity two.
OrderNext ==
    \/ \E c \in OrderConns, u \in UserIDs : HandleWebSocket(c, u)
    \/ \E c \in OrderConns, f \in OrderFrames : ReadNumberedFrame(c, f)
    \/ \E c \in OrderConns : ReadError(c)
    \/ \E c \in OrderConns : WriteMessage(c)
    \/ \E c \in OrderConns : WriteClosed(c)
    \/ \E c \in OrderConns : HubRegister(c)
    \/ \E c \in OrderConns : HubUnregister(c)
    \/ \E c \in OrderConns : HubRoute(c)

OrderSpec == OrderInit /\ [][OrderNext]_vars

\* Go's select picks among its ready cases at random and a channel serves its
\* blocked senders in order, so a submission that stays ready is received.
FairSpec ==
    /\ Spec
    /\ \A c \in Conns : WF_vars(HubRegister(c))
    /\ \A c \in Conns : WF_vars(HubUnregister(c))
    /\ \A c \in Conns : WF_vars(HubRoute(c))

\* ================================================================ claims
\* The entry of user u is full: a deposit would take the default branch.
Full(t) == Len(send[t]) >= limits.cap
\* The envelopes a mailbox gained in the step.
Gained(t) == SubSeq(send'[t], Len(send[t]) + 1, Len(send'[t]))
\* The step is Hub.Run handling the register, unregister or route event
\* submitted by c, or c's ReadPump taking a frame off the wire.
RegisterStep(c) == hw[c] = "registering" /\ hw'[c] = "done" /\ HubRegister(c)
UnregisterStep(c) == rp[c] = "unregistering" /\ rp'[c] = "done" /\ HubUnregister(c)
RouteStep(c) == rp[c] = "forwarding" /\ rp'[c] = "reading" /\ HubRoute(c)
ReadStep(c) == rp[c] = "reading" /\ rp'[c] = "forwarding"

\* ---- C1
\* C1 as stated, on the pointer-keyed hub: no two registered Connections have
\* the same user ID.
C1_OnePerIdentity_Ptr ==
    \A c1 \in ptrClients : \A c2 \in ptrClients :
        userID[c1] = userID[c2] => c1 = c2

\* The same statement on the identity-keyed hub, whose map has one entry per
\* user ID: it holds there.
C1_OnePerIdentity_Keyed ==
    \A u1 \in UserIDs : \A u2 \in UserIDs :
        (clients[u1] # NoClient /\ clients[u2] # NoClient
            /\ userID[clients[u1]] = userID[clients[u2]])
                => clients[u1] = clients[u2]

\* ---- C2
\* C2 as stated: Unregister(c) for a Connection that is not the current entry
\* of its identity leaves that entry in the registry.
C2_StaleUnregisterIgnored ==
    [][\A c \in Conns :
          (UnregisterStep(c) /\ clients[userID[c]] \notin {c, NoClient})
              => clients'[userID[c]] = clients[userID[c]]]_vars

\* ---- C3
\* C3: routing a private_message from registered S to registered R # S, with
\* neither mailbox full, appends exactly one private_message envelope to R's
\* mailbox and exactly one message_sent envelope to S's, both with from S,
\* to R and the content, and changes no other mailbox and no registry entry.
C3_PrivateDelivery ==
    [][\A c \in Conns :
          LET m == inflight[c]
              r == clients[m.to]
              s == clients[m.from]
          IN (/\ RouteStep(c)
              /\ m.type = PrivateMessage
              /\ m.to \in UserIDs /\ m.from \in UserIDs /\ m.to # m.from
              /\ r # NoClient /\ s # NoClient
              /\ ~Full(r) /\ ~Full(s))
             => /\ Len(Gained(r)) = 1
                /\ Gained(r)[1].type = PrivateMessage
                /\ Gained(r)[1].from = m.from
                /\ Gained(r)[1].to = m.to
                /\ Gained(r)[1].content = m.content
                /\ Len(Gained(s)) = 1
                /\ Gained(s)[1].type = MessageSent
                /\ Gained(s)[1].from = m.from
                /\ Gained(s)[1].to = m.to
                /\ Gained(s)[1].content = m.content
                /\ \A d \in Conns \ {r, s} : send'[d] = send[d]
                /\ clients' = clients
                /\ sendState' = sendState]_vars

\* A recipient holds a private_message and its sender holds the echo.
C3_Witness ==
    \E r \in Conns, s \in Conns :
        /\ r # s /\ userID[r] # 0 /\ userID[s] # 0 /\ userID[r] # userID[s]
        /\ clients[userID[r]] = r /\ clients[userID[s]] = s
        /\ \E i \in 1..Len(send[r]) : \E j \in 1..Len(send[s]) :
              /\ send[r][i].type = PrivateMessage
              /\ send[r][i].from = userID[s] /\ send[r][i].to = userID[r]
              /\ send[s][j] = [send[r][i] EXCEPT !.type = MessageSent]

\* ---- C4
\* The recipient named by m has no registry entry.
NoRecipient(m) == m.to \notin UserIDs \/ clients[m.to] = NoClient

\* C4 as stated: routing a private_message to an identity without an entry
\* deposits no private_message, leaves the registry unchanged and leaves the
\* hub running.
C4_UnknownRecipient_Orig ==
    [][\A c \in Conns :
          (RouteStep(c) /\ inflight[c].type = PrivateMessage /\ NoRecipient(inflight[c]))
              => /\ \A d \in Conns : \A i \in 1..Len(Gained(d)) :
                        Gained(d)[i].type # PrivateMessage
                 /\ clients' = clients
                 /\ hubState' = "running"]_vars

\* C4 amended: routing a private_message to an identity without an entry
\* deposits no private_message and leaves the hub running; the registry is
\* unchanged except that the sender's entry is evicted (mailbox closed, entry
\* removed) when the message_sent echo finds the sender's mailbox full.
C4_UnknownRecipient ==
    [][\A c \in Conns :
          LET m == inflight[c] IN
          (RouteStep(c) /\ m.type = PrivateMessage /\ NoRecipient(m))
              => /\ \A d \in Conns : \A i \in 1..Len(Gained(d)) :
                        Gained(d)[i].type # PrivateMessage
                 /\ hubState' = "running"
                 /\ \A u \in UserIDs :
                        clients'[u] # clients[u]
                            => /\ u = m.from
                               /\ Full(clients[u])
                               /\ clients'[u] = NoClient
                               /\ sendState'[clients[u]] # "open"
                 /\ \A u \in UserIDs :
                        (u = m.from /\ clients[u] # NoClient /\ ~Full(clients[u]))
                            => clients'[u] = clients[u]]_vars

\* A sender holds the echo of a private_message whose recipient never
\* connected, and no mailbox holds that private_message.
C4_Witness ==
    \E s \in Conns : \E j \in 1..Len(send[s]) :
        /\ send[s][j].type = MessageSent
        /\ \A d \in Conns : userID[d] # send[s][j].to
        /\ \A d \in Conns : \A i \in 1..Len(send[d]) : send[d][i].type # PrivateMessage

\* A sender was evicted by the echo of a private_message whose recipient
\* never connected.
C4_WitnessEvicted ==
    \E s \in Conns :
        /\ sendState[s] = "sender"
        /\ \A d \in Conns : \A i \in 1..Len(send[d]) :
              send[d][i].type \notin {PrivateMessage, MessageSent}

\* ---- C5
\* The registered Connections whose mailbox the hub loop attempts a deposit
\* into while it handles the event submitted by c.
RegisterTargets(c) == {clients[u] : u \in UserIDs \ {userID[c]}} \ {NoClient}
UnregisterTargets(c) ==
    IF clients[userID[c]] # NoClient /\ sendState[c] = "open"
    THEN {clients[u] : u \in UserIDs \ {userID[c]}} \ {NoClient}
    ELSE {}
RouteTargets(c) ==
    LET m == inflight[c] IN
    IF m.type = PrivateMessage
    THEN {clients[u] : u \in {m.to, m.from} \cap UserIDs} \ {NoClient}
    ELSE IF m.type = Broadcast
    THEN {clients[u] : u \in UserIDs \ {m.from}} \ {NoClient}
    ELSE {}
\* The close statements of the overflow branches.
OverflowSites == {"recipient", "sender", "broadcast", "status"}
\* The Connection is closed and its identity has no entry.
Evicted(t) == sendState'[t] # "open" /\ clients'[userID[t]] = NoClient

\* C5: a deposit attempted into the full mailbox of a registered Connection
\* closes the mailbox and removes the entry within the same event, and the
\* identity stays out of the presence snapshot until it registers again.
C5_OverflowEvicts ==
    [][/\ \A c \in Conns :
            /\ RegisterStep(c) => \A t \in RegisterTargets(c) : Full(t) => Evicted(t)
            /\ UnregisterStep(c) => \A t \in UnregisterTargets(c) : Full(t) => Evicted(t)
            /\ RouteStep(c) => \A t \in RouteTargets(c) : Full(t) => Evicted(t)
       /\ \A u \in UserIDs :
            (u \notin GetOnlineUsers /\ u \in GetOnlineUsers')
                => \E c \in Conns : userID[c] = u /\ RegisterStep(c)]_vars

\* A Connection evicted for a full mailbox: closed, its mailbox still full,
\* its identity not in the snapshot.
C5_Witness ==
    \E t \in Conns :
        /\ sendState[t] \in OverflowSites
        /\ Len(send[t]) = limits.cap
        /\ userID[t] \notin GetOnlineUsers

\* ---- C6
\* C6: routing a broadcast from S appends exactly one copy to the mailbox of
\* every registered identity other than S that is not full, evicts the full
\* ones, and deposits nothing into S's mailbox.
C6_Broadcast ==
    [][\A c \in Conns :
          LET m == inflight[c] IN
          (RouteStep(c) /\ m.type = Broadcast)
              => /\ \A u \in UserIDs \ {m.from} :
                        LET t == clients[u] IN
                        t # NoClient =>
                            IF Full(t)
                            THEN Evicted(t) /\ send'[t] = send[t]
                            ELSE /\ send'[t] = Append(send[t], m)
                                 /\ clients'[u] = t /\ sendState'[t] = "open"
                 /\ \A d \in Conns :
                        (d = clients[m.from] \/ \A u \in UserIDs : clients[u] # d)
                            => send'[d] = send[d] /\ sendState'[d] = sendState[d]
                 /\ clients'[m.from] = clients[m.from]]_vars

\* A broadcast reached one recipient although another recipient was evicted
\* with a full mailbox, and the sender's mailbox holds no copy.
C6_Witness ==
    \E s \in Conns, r \in Conns, e \in Conns :
        /\ userID[s] # 0 /\ userID[r] # userID[s] /\ userID[e] \notin {0, userID[s], userID[r]}
        /\ \E i \in 1..Len(send[r]) :
              send[r][i].type = Broadcast /\ send[r][i].from = userID[s]
        /\ sendState[e] = "broadcast"
        /\ \A i \in 1..Len(send[e]) : send[e][i].type # Broadcast
        /\ \A i \in 1..Len(send[s]) : send[s][i].type # Broadcast

\* ---- C7
\* C7: every envelope handed to the hub carries the identity authenticated for
\* the forwarding Connection as from, every envelope a route deposits carries
\* it too, and two frames that differ only in from are stamped alike.
C7_FromIsAuthenticated ==
    [][\A c \in Conns :
          /\ ReadStep(c) =>
                \A f \in Frames :
                    ReadFrame(c, f) =>
                        /\ inflight'[c].from = userID[c]
                        /\ \A x \in FrameFroms :
                              inflight'[c] = Stamp(c, [f EXCEPT !.from = x])
          /\ RouteStep(c) =>
                \A d \in Conns : \A i \in 1..Len(Gained(d)) :
                    Gained(d)[i].from = userID[c]]_vars

\* An envelope is on its way to the hub with a from the client cannot have
\* supplied, and one such envelope has been delivered.
C7_Witness ==
    \E c \in Conns : \E d \in Conns : \E i \in 1..Len(send[d]) :
        /\ userID[c] \notin FrameFroms
        /\ send[d][i].type \in {PrivateMessage, Broadcast}
        /\ send[d][i].from = userID[c]

\* ---- C8
\* C8 as stated: type, to, content and username of a frame reach the envelope
\* handed to the hub as the client supplied them.
C8_FieldsPreserved_Orig ==
    [][\A c \in Conns :
          ReadStep(c) =>
              \A f \in Frames :
                  ReadFrame(c, f)
                      => /\ inflight'[c].type = f.type
                         /\ inflight'[c].to = f.to
                         /\ inflight'[c].content = f.content
                         /\ inflight'[c].username = f.username]_vars

\* C8 amended: type, to and content of a frame reach the delivered envelope as
\* the client supplied them; from, username and timestamp are overwritten with
\* the Connection's identity, its username and the server's time; the copy
\* echoed to the sender carries type message_sent.
C8_FieldsPreserved ==
    [][\A c \in Conns :
          /\ ReadStep(c) =>
                \A f \in Frames :
                    ReadFrame(c, f)
                        => /\ inflight'[c].type = f.type
                           /\ inflight'[c].to = f.to
                           /\ inflight'[c].content = f.content
                           /\ inflight'[c].from = userID[c]
                           /\ inflight'[c].username = UsernameOf(userID[c])
                           /\ inflight'[c].timestamp = ServerTime
          /\ RouteStep(c) =>
                \A d \in Conns : \A i \in 1..Len(Gained(d)) :
                    LET e == Gained(d)[i] IN
                    \/ /\ e = inflight[c]
                       /\ inflight[c].type = Broadcast \/ d = clients[inflight[c].to]
                    \/ /\ e = [inflight[c] EXCEPT !.type = MessageSent]
                       /\ inflight[c].type = PrivateMessage
                       /\ d = clients[inflight[c].from]]_vars

\* A delivered private_message carries the content the client sent and the
\* username of the sending Connection, which no frame can carry.
C8_Witness ==
    \E d \in Conns : \E i \in 1..Len(send[d]) :
        /\ send[d][i].type = PrivateMessage
        /\ send[d][i].content \in FrameContents
        /\ send[d][i].username \notin FrameUsernames
        /\ send[d][i].timestamp \notin FrameTimestamps

\* ---- C9
\* A Connection has a submission blocked on one of the hub's channels.
Pending(c) ==
    hw[c] = "registering" \/ rp[c] = "forwarding" \/ rp[c] = "unregistering"

\* C9 as stated: every register, unregister or route submission is eventually
\* received by the hub loop.
C9_SubmissionsAccepted ==
    \A c \in Conns : Pending(c) ~> ~Pending(c)

\* ---- C10
\* The Connection's pumps are running and its mailbox is open.
Active(c) == rp[c] \in {"reading", "forwarding", "unregistering"} /\ sendState[c] = "open"

\* C10 as stated: a Connection is active exactly when it is the current entry
\* of its identity.
C10_ActiveIffRegistered ==
    \A c \in Conns :
        userID[c] # 0 => (Active(c) <=> clients[userID[c]] = c)

\* ---- C11
\* C11: a request answered 401 constructs no Connection, hands nothing to the
\* register channel, starts no pump, and leaves the registry and every mailbox
\* as they were, in the step that answers it and ever after.
C11_UnauthorizedNoEffect ==
    [][\A c \in Conns :
          hw'[c] = "unauthorized"
              => /\ hw[c] \in {"new", "unauthorized"}
                 /\ userID'[c] = 0
                 /\ rp'[c] = "idle" /\ wp'[c] = "idle"
                 /\ send'[c] = <<>> /\ sendState'[c] = "open"
                 /\ \A u \in UserIDs : clients'[u] # c
                 /\ hw[c] = "new" =>
                        UNCHANGED <<clients, ptrClients, userID, send, sendState,
                                    rp, wp, inflight, hubState>>]_vars

\* A request was answered 401 and a later one was registered and served.
C11_Witness ==
    \E c \in Conns, d \in Conns :
        /\ hw[c] = "unauthorized" /\ c < d
        /\ hw[d] = "done" /\ clients[userID[d]] = d

\* ---- C12
\* The step is Hub.Run handling an event of the pointer-keyed hub.
PtrHubStep ==
    \E c \in Conns : PtrHubRegister(c) \/ PtrHubUnregister(c) \/ PtrHubBroadcast(c)

\* C12 as stated: every step that inserts into or deletes from the registry
\* map is a step of the hub loop.
C12_OnlyHubWritesRegistry ==
    [][ptrClients' # ptrClients => PtrHubStep]_vars

\* ---- C13
\* C13 as stated: the slice GetOnlineUserIDs returns holds each identity once
\* and is the set of identities registered at a moment of the call.
C13_SnapshotExact ==
    snap.pc = "returned"
        => /\ Elems(snap.userIDs) \in snap.moments
           /\ Cardinality(Elems(snap.userIDs)) = Len(snap.userIDs)

\* The same statement for a call that no write of the hub loop overlaps: it
\* holds.
C13_SnapshotExact_NoOverlap ==
    (snap.pc = "returned" /\ Cardinality(snap.moments) = 1)
        => /\ Elems(snap.userIDs) \in snap.moments
           /\ Cardinality(Elems(snap.userIDs)) = Len(snap.userIDs)

\* ---- C14
\* C14 as stated: Register(cNew) for an identity whose entry is cOld leaves
\* cOld's mailbox closed and cNew as the entry.
C14_ReplacedIsClosed ==
    [][\A c \in Conns :
          (RegisterStep(c) /\ clients[userID[c]] \notin {NoClient, c})
              => /\ sendState'[clients[userID[c]]] # "open"
                 /\ clients'[userID[c]] = c]_vars

\* ---- C15
\* The unregister case runs close(client.send) on a mailbox already closed.
ClosesAgain(c) ==
    UnregisterStep(c) /\ clients[userID[c]] # NoClient /\ sendState[c] # "open"

\* C15 as stated: no event closes a mailbox that is already closed.
C15_ClosedOnce ==
    [][\A c \in Conns : ~ClosesAgain(c)]_vars

OfflineOf(u) == Message(UserOffline, u, 0, "", "", UsernameOf(u))

\* C17 as stated: Unregister(c) for the current entry removes it, closes c's
\* mailbox and appends user_offline to the mailbox of every remaining
\* Connection; Unregister(c) for an identity without an entry changes nothing.
C17_Unregister_Orig ==
    [][\A c \in Conns :
          UnregisterStep(c) =>
              LET u == userID[c] IN
              /\ clients[u] = c
                    => /\ clients'[u] = NoClient
                       /\ sendState'[c] # "open"
                       /\ \A t \in UnregisterTargets(c) :
                              Gained(t) = <<OfflineOf(u)>>
              /\ clients[u] = NoClient
                    => UNCHANGED <<clients, send, sendState, hubState>>]_vars

\* C17 amended: Unregister(c) for the current entry removes it, closes c's
\* mailbox and appends user_offline to the mailbox of every remaining
\* Connection that has room, a full one being evicted instead;
\* Unregister(c) for an identity without an entry changes nothing.
C17_Unregister ==
    [][\A c \in Conns :
          UnregisterStep(c) =>
              LET u == userID[c] IN
              /\ clients[u] = c
                    => /\ clients'[u] = NoClient
                       /\ sendState'[c] = "unregister"
                       /\ send'[c] = send[c]
                       /\ hubState' = "running"
                       /\ \A t \in UnregisterTargets(c) :
                              IF Full(t)
                              THEN Evicted(t) /\ send'[t] = send[t]
                              ELSE /\ Gained(t) = <<OfflineOf(u)>>
                                   /\ sendState'[t] = "open"
                                   /\ clients'[userID[t]] = t
              /\ clients[u] = NoClient
                    => UNCHANGED <<clients, send, sendState, hubState>>]_vars

\* One Connection was unregistered as the current entry and another holds its
\* user_offline; a third was evicted for a full mailbox and its late
\* unregister has been received.
C17_Witness ==
    \E c \in Conns, t \in Conns, e \in Conns :
        /\ sendState[c] = "unregister" /\ rp[c] = "done"
        /\ send[t] = <<OfflineOf(userID[c])>> /\ sendState[t] = "open"
        /\ sendState[e] = "status" /\ rp[e] = "done"
        /\ hubState = "running"

\* ---- C18
\* The user_online envelope announcing user u.
OnlineOf(u) == Message(UserOnline, u, 0, "", "", UsernameOf(u))

\* C18 as stated: Register(c) appends user_online to the mailbox of every
\* registered Connection except c, and to no other mailbox.
C18_RegisterAnnounces_Orig ==
    [][\A c \in Conns :
          RegisterStep(c) =>
              \A t \in Conns :
                  IF t \in RegisterTargets(c)
                  THEN Gained(t) = <<OnlineOf(userID[c])>>
                  ELSE send'[t] = send[t]]_vars

\* C18 amended: Register(c) appends user_online to the mailbox of every
\* registered Connection that has room, the one just registered included; a
\* full one is evicted instead, and a Connection that c replaced gets nothing.
C18_RegisterAnnounces ==
    [][\A c \in Conns :
          RegisterStep(c) =>
              \A t \in Conns :
                  IF t = c
                  THEN /\ send'[c] = Append(send[c], OnlineOf(userID[c]))
                       /\ clients'[userID[c]] = c
                  ELSE IF t \in RegisterTargets(c)
                  THEN IF Full(t)
                       THEN Evicted(t) /\ send'[t] = send[t]
                       ELSE /\ Gained(t) = <<OnlineOf(userID[c])>>
                            /\ clients'[userID[t]] = t
                  ELSE send'[t] = send[t]]_vars

\* A registered Connection holds its own user_online and another registered
\* Connection holds the same envelope.
C18_Witness ==
    \E c \in Conns, t \in Conns :
        /\ c # t /\ userID[c] # 0 /\ userID[t] # 0
        /\ clients[userID[c]] = c /\ clients[userID[t]] = t
        /\ send[c] = <<OnlineOf(userID[c])>>
        /\ send[t] = <<OnlineOf(userID[c])>>

\* ---- C19
\* C19: neither pump of a Connection runs, and the hub loop receives neither a
\* frame of the Connection nor its unregister, before the loop has received
\* its register.
C19_RegisterFirst ==
    [][\A c \in Conns :
          /\ (rp[c] # "idle" \/ wp[c] # "idle") => hw[c] = "done"
          /\ (ReadStep(c) \/ RouteStep(c) \/ UnregisterStep(c)) => hw[c] = "done"]_vars

\* A Connection's frame was routed and its unregister was received.
C19_Witness ==
    \E c \in Conns :
        /\ origin = <<c>> /\ rp[c] = "done" /\ hw[c] = "done"
        /\ sendState[c] = "unregister"

\* ---- C20
\* Frame k has been handed to the hub loop and received by it.
Routed(k) ==
    /\ k <= Len(origin)
    /\ ~(rp[origin[k]] = "forwarding" /\ FrameNo(inflight[origin[k]]) = k)

\* C20: of two frames forwarded by the same Connection, the later one is
\* forwarded only after the hub loop routed the earlier one, and in every
\* mailbox that holds envelopes of both the earlier one comes first.
C20_ForwardOrder ==
    /\ \A k \in 1..Len(origin) : \A l \in 1..Len(origin) :
           (k < l /\ origin[k] = origin[l]) => Routed(k)
    /\ \A d \in Conns : \A i \in 1..Len(send[d]) : \A j \in 1..Len(send[d]) :
           LET k == FrameNo(send[d][i])
               l == FrameNo(send[d][j])
           IN (i < j /\ k > 0 /\ l > 0 /\ origin[k] = origin[l]) => k <= l

\* A mailbox holds the two private messages one Connection forwarded, in the
\* order it forwarded them.
C20_Witness ==
    \E c \in Conns, d \in Conns :
        /\ c # d /\ origin = <<c, c>>
        /\ Len(send[d]) = 2
        /\ send[d][1].type = PrivateMessage /\ FrameNo(send[d][1]) = 1
        /\ send[d][2].type = PrivateMessage /\ FrameNo(send[d][2]) = 2

\* ---- C21
\* C21 as stated, its safety half: once the hub loop has received the
\* unregister of a Connection, the Connection is not in the registry and its
\* mailbox is closed.
C21_UnregisterCloses ==
    [][\A c \in Conns :
          UnregisterStep(c)
              => /\ clients'[userID[c]] # c
                 /\ sendState'[c] # "open"]_vars

\* ---- C22
\* Message.Type values the switch of Hub.Run has no case for.
UnknownKinds == {"", UserOnline, UserOffline, MessageSent, "typing"}

\* C22: routing an envelope of a kind the hub does not dispatch on leaves the
\* registry, every mailbox and the hub loop as they were, for the envelope
\* routed and for the same envelope under every other such kind.
C22_UnknownKindDropped ==
    [][\A c \in Conns :
          RouteStep(c) =>
              /\ inflight[c].type \notin {PrivateMessage, Broadcast}
                    => UNCHANGED <<clients, send, sendState, hubState>>
              /\ \A k \in UnknownKinds :
                     RouteResult(HubView, [inflight[c] EXCEPT !.type = k]) = HubView]_vars

\* A client-sent user_online was routed while a Connection was registered.
C22_Witness ==
    \E c \in Conns :
        /\ Len(forwarded) = 1 /\ forwarded[1].type = UserOnline
        /\ origin = <<c>> /\ rp[c] = "reading"
        /\ clients[userID[c]] = c /\ hubState = "running"

\* ---- C23
\* C23 as stated: routing a private_message whose to is zero deposits nothing
\* into any mailbox and leaves the registry and the hub loop as they were.
C23_MissingToDropped ==
    [][\A c \in Conns :
          (RouteStep(c) /\ inflight[c].type = PrivateMessage /\ inflight[c].to = 0)
              => UNCHANGED <<clients, send, sendState, hubState>>]_vars

\* ---- C24
\* C24 as stated: routing a private_message to a registered recipient (other
\* than the sender) whose mailbox is full delivers nothing to the recipient,
\* evicts it, and appends exactly the message_sent echo to the sender's
\* mailbox.
C24_FullRecipient_Orig ==
    [][\A c \in Conns :
          LET m == inflight[c]
              r == clients[m.to]
          IN (/\ RouteStep(c) /\ m.type = PrivateMessage
              /\ m.to \in UserIDs /\ m.to # m.from /\ r # NoClient /\ Full(r))
             => /\ send'[r] = send[r] /\ Evicted(r)
                /\ clients[m.from] # NoClient =>
                       Gained(clients[m.from]) = <<[m EXCEPT !.type = MessageSent]>>]_vars

\* C24 amended: routing a private_message to a registered recipient whose
\* mailbox is full delivers nothing to the recipient and evicts it; the
\* sender's entry, when there is one other than the recipient, gets exactly
\* the message_sent echo if it has room and is evicted too if it is full;
\* no other mailbox and no other entry changes.
C24_FullRecipient ==
    [][\A c \in Conns :
          LET m == inflight[c]
              r == clients[m.to]
              s == clients[m.from]
          IN (/\ RouteStep(c) /\ m.type = PrivateMessage
              /\ m.to \in UserIDs /\ r # NoClient /\ Full(r))
             => /\ send'[r] = send[r] /\ Evicted(r)
                /\ sendState'[r] = "recipient"
                /\ hubState' = "running"
                /\ (s # NoClient /\ s # r) =>
                       IF Full(s)
                       THEN Evicted(s) /\ send'[s] = send[s]
                       ELSE /\ Gained(s) = <<[m EXCEPT !.type = MessageSent]>>
                            /\ clients'[m.from] = s /\ sendState'[s] = "open"
                /\ \A d \in Conns \ {r, s} :
                       send'[d] = send[d] /\ sendState'[d] = sendState[d]
                /\ \A u \in UserIDs \ {m.to, m.from} : clients'[u] = clients[u]]_vars

\* A recipient was evicted by a private_message that found its mailbox full,
\* and the sender holds the message_sent echo of that message.
C24_Witness ==
    \E r \in Conns, s \in Conns :
        /\ r # s /\ sendState[r] = "recipient"
        /\ userID[s] # 0 /\ clients[userID[s]] = s
        /\ Len(forwarded) = 1 /\ origin = <<s>>
        /\ send[s] = <<[forwarded[1] EXCEPT !.type = MessageSent]>>
        /\ \A i \in 1..Len(send[r]) : send[r][i].type # PrivateMessage

\* ---- C26
\* C26: the Connection that is the registry's entry of an identity has an open
\* mailbox, so no deposit of the hub loop meets a closed one.
C26_EntriesAreOpen ==
    \A u \in UserIDs :
        clients[u] # NoClient => sendState[clients[u]] = "open"

\* An identity whose earlier Connection was closed has a newer Connection as
\* its entry.
C26_Witness ==
    \E c \in Conns, d \in Conns :
        /\ c # d /\ userID[c] # 0 /\ userID[c] = userID[d]
        /\ sendState[c] # "open"
        /\ clients[userID[d]] = d /\ send[d] # <<>>

\* ---- C28
\* The step closes the mailbox of t in an overflow branch.
EvictedNow(t) == sendState[t] = "open" /\ sendState'[t] \in OverflowSites

\* No mailbox gains a user_offline about user u in the step.
NoOfflineAbout(u) ==
    \A d \in Conns : \A i \in 1..Len(Gained(d)) :
        ~(Gained(d)[i].type = UserOffline /\ Gained(d)[i].from = u)

\* C28: an event that evicts a Connection for a full mailbox removes its
\* identity's entry and announces no user_offline about it, and the unregister
\* of a Connection whose identity has no entry deposits nothing.
C28_EvictionSilent ==
    [][\A c \in Conns :
          /\ (RegisterStep(c) \/ UnregisterStep(c) \/ RouteStep(c))
                => \A t \in Conns :
                       EvictedNow(t)
                           => clients'[userID[t]] = NoClient /\ NoOfflineAbout(userID[t])
          /\ (UnregisterStep(c) /\ clients[userID[c]] = NoClient)
                => \A d \in Conns : send'[d] = send[d]]_vars

\* A Connection was evicted for a full mailbox, its late unregister was
\* received, and the mailbox of a registered Connection of another identity
\* has room and holds no user_offline.
C28_Witness ==
    \E t \in Conns, d \in Conns :
        /\ sendState[t] \in OverflowSites /\ rp[t] = "done"
        /\ clients[userID[t]] = NoClient
        /\ userID[d] \notin {0, userID[t]} /\ clients[userID[d]] = d
        /\ send[d] = <<>>

\* ---- C25
\* The positions of the handler between the INSERT and the response.
PostLive == {"stored", "found", "closed", "returned"}

\* C25 as stated: a mailbox gains the message only from a request whose
\* INSERT succeeded; a request whose INSERT failed is answered 500; and a
\* request whose INSERT succeeded is answered 200 whatever SendToUser met,
\* with the message still stored.
C25_StoreThenDeliver ==
    [][/\ (\E d \in Conns : send'[d] # send[d] /\ Len(send'[d]) > Len(send[d]))
            => post.stored /\ post.pc = "found"
       /\ (post.pc \in PostDone /\ post'.pc \notin PostDone) => post'.stored
       /\ post'.pc = "500" => ~post'.stored /\ post'.deposits = 0
       /\ (post.pc \in PostLive /\ post'.pc \notin PostLive)
            => post'.pc = "200" /\ post'.stored]_vars

\* C25 without the answer to a request the handler panicked in: live delivery
\* comes after a successful INSERT only, a failed INSERT is answered 500 with
\* nothing deposited, and the stored message is kept whatever SendToUser met.
C25_StoreFirst ==
    [][/\ (\E d \in Conns : send'[d] # send[d] /\ Len(send'[d]) > Len(send[d]))
            => post.stored /\ post.pc = "found"
       /\ (post.pc \in PostDone /\ post'.pc \notin PostDone) => post'.stored
       /\ post'.pc = "500" => ~post'.stored /\ post'.deposits = 0
       /\ (post.pc \in PostLive /\ post'.pc \notin PostLive)
            => post'.pc \in {"200", "aborted"} /\ post'.stored]_vars

\* ---- C27
\* C27 as stated: no send of SendToUser meets a closed channel and no close of
\* the hub loop or of SendToUser meets a channel already closed (either one
\* panics).
C27_NoCloseRace ==
    post.pc # "aborted" /\ hubState # "panicked"

\* ---- C29
\* C29: the select of SendToUser touches the mailbox of one registered
\* client, a client of the receiver; a call deposits at most once; and the
\* call returns nil when no client matched, when it deposited and when it
\* evicted.
C29_SendToUserOne ==
    [][/\ (post.pc = "found" /\ post'.pc # "found")
            => LET c == post.client IN
               /\ userID[c] = post.receiver
               /\ \A d \in Conns \ {c} :
                      send'[d] = send[d] /\ sendState'[d] = sendState[d]
               /\ send'[c] \in {send[c], Append(send[c], NewMessage)}
       /\ post'.deposits <= 1
       /\ (post.pc \in {"stored", "found", "closed"} /\ post'.pc = "returned")
            => post'.err = "nil"]_vars

\* Two clients of one user are registered, a call for that user has returned
\* and was answered, and one of the two holds the message, the other nothing.
C29_Witness ==
    \E c \in ptrClients, d \in ptrClients :
        /\ c # d /\ userID[c] = userID[d]
        /\ post.pc = "200" /\ post.receiver = userID[c] /\ post.deposits = 1
        /\ send[c] = <<NewMessage>> /\ send[d] = <<>>

\* ---- C30
\* What C30 says of every step: the counter stays within
\* 0..maxReconnectAttempts; a close event sets at most one timer, and counts
\* the attempt exactly when it sets one; an open event resets the counter.
ReconnectStep ==
    /\ browser'.reconnectAttempts \in 0..maxReconnectAttempts
    /\ browser'.event = "close" /\ browser' # browser
         => /\ browser'.timers - browser.timers \in {0, 1}
            /\ browser'.reconnectAttempts - browser.reconnectAttempts
                 = browser'.timers - browser.timers
            /\ browser'.timers > browser.timers
                 <=> browser.reconnectAttempts < maxReconnectAttempts
    /\ browser'.event = "open" /\ browser' # browser
         => browser'.reconnectAttempts = 0

\* C30 as stated: ... and once maxReconnectAttempts close events in a row
\* have come without an open event, no timer is ever set again.
C30_Reconnect_Orig ==
    [][/\ ReconnectStep
       /\ browser.maxRun >= maxReconnectAttempts
            => browser'.timers <= browser.timers]_vars

\* C30, amended: ... and while maxReconnectAttempts or more close events
\* have come since the last open event (or since construction), no timer is
\* set; the counter is the number of those close events, capped at
\* maxReconnectAttempts.
C30_Reconnect ==
    [][/\ ReconnectStep
       /\ browser.run >= maxReconnectAttempts
            => browser'.timers <= browser.timers
       /\ browser'.reconnectAttempts
            = IF browser'.run < maxReconnectAttempts
              THEN browser'.run ELSE maxReconnectAttempts]_vars

\* A close event has just come after maxReconnectAttempts others with no open
\* event among them: the counter is at the maximum and no timer is pending.
C30_Witness ==
    /\ browser.event = "close"
    /\ browser.run > maxReconnectAttempts
    /\ browser.reconnectAttempts = maxReconnectAttempts
    /\ browser.timers = 0

====
